---- MODULE Spec2Model ----
(***************************************************************************)
(* Model of the UrbanSage mobile capture path: CameraScreen.submitIssue,   *)
(* the local SQLite store (DatabaseService), the remote clients            *)
(* (ApiService) and the notification service, as the source has them.      *)
(*                                                                         *)
(* Two specifications:                                                     *)
(*   Spec    - the application: app start, the camera screen, one          *)
(*             submitIssue call cut at its await points, crashes.          *)
(*   DbSpec  - DatabaseService alone, its public methods called in any     *)
(*             order with any arguments.                                   *)
(***************************************************************************)
EXTENDS Integers, Sequences, FiniteSets, TLC

VARIABLES
    app,        \* "stopped" | "running": the JS process
    screen,     \* "home" | "camera": which screen is mounted
    net,        \* what NetInfo.fetch() would answer now (isConnected)
    clock,      \* the device clock, new Date()
    isOnline,   \* CameraScreen state isOnline (the latest render's value)
    loading,    \* CameraScreen state loading
    showForm,   \* CameraScreen state showForm
    photo,      \* CameraScreen state photo
    pc,         \* where the running submitIssue call is
    cur,        \* the closure and locals of the latest submitIssue call
    alert,      \* the last Alert.alert title shown by submitIssue
    sent,       \* every request createIssue posted, with the server's answer
    pushes,     \* every sendPushNotification call, with its outcome
    pushToken,  \* NotificationService.expoPushToken
    dbOpen,     \* DatabaseService.db # null
    rows,       \* the rows of table issues, in rowid order (durable)
    nextId,     \* the next AUTOINCREMENT id (durable)
    result,     \* what the latest DatabaseService query returned
    nReports,   \* captures confirmed so far
    inFlight,   \* submitIssue executions between their start and their end
    pressed,    \* the title and description the last submit press found
    issued      \* every id a successful INSERT has returned (history)

vars == <<app, screen, net, clock, isOnline, loading, showForm, photo, pc, cur,
          alert, sent, pushes, pushToken, dbOpen, rows, nextId, result,
          nReports, inFlight, pressed, issued>>

appVars == <<app, screen, net, isOnline, loading, showForm, photo, pc, cur,
             alert, sent, pushes, pushToken, nReports, inFlight, pressed>>

----------------------------------------------------------------------------
(* Bounds *)

MaxReports == 1
ClockStart == 9
ClockSpan == 1
MaxRows == 2

----------------------------------------------------------------------------
(* Values *)

NoPhoto == "undefined"
LocalUri == "file:photo.jpg"
RemoteUrl == "https://i.ibb.co/photo.jpg"
Null == "null"
Undefined == "undefined"
UnknownLocation == "Unknown location"

\* What the user can have typed into a TextInput.
Texts == {<<>>, <<" ">>, <<"a">>, <<" ", "a", " ">>}

\* CameraScreen state location: null, or an address that may be empty.
Locations == {Null, "", "Main St"}

----------------------------------------------------------------------------
(* Pure helpers *)

RECURSIVE TrimLeft(_)
TrimLeft(s) ==
    IF s # <<>> /\ Head(s) = " " THEN TrimLeft(Tail(s)) ELSE s

RECURSIVE TrimRight(_)
TrimRight(s) ==
    IF s # <<>> /\ s[Len(s)] = " " THEN TrimRight(SubSeq(s, 1, Len(s) - 1)) ELSE s

\* A trim that returns its argument.
TrimNothing(s) == s

\* String.prototype.trim
Trim(s) == TrimRight(TrimLeft(s))

\* A location label without the fallback.
LocationLabelAsIs(loc) == loc

\* location?.address || 'Unknown location'
LocationLabel(loc) ==
    IF loc = Null \/ loc = "" THEN UnknownLocation ELSE loc

\* new Date().toISOString(): fixed-width text, most significant digit first.
ToISOString(t) == <<t \div 10, t % 10>>

\* Byte-wise comparison of two texts of digits (SQLite BINARY collation).
RECURSIVE TextLess(_, _)
TextLess(a, b) ==
    IF b = <<>> THEN FALSE
    ELSE IF a = <<>> THEN TRUE
    ELSE IF Head(a) # Head(b) THEN Head(a) < Head(b)
    ELSE TextLess(Tail(a), Tail(b))

TextLeq(a, b) == a = b \/ TextLess(a, b)

\* All orderings of the elements of s.
Orderings(s) ==
    {p \in [1..Len(s) -> 1..Len(s)] : \A i, j \in 1..Len(s) : p[i] = p[j] => i = j}

----------------------------------------------------------------------------
(* DatabaseService.  A database value is [open, rows, nextId]; every       *)
(* method is a function from the database before, its arguments and the    *)
(* environment's answers (does openDatabaseAsync succeed, does the         *)
(* statement succeed) to the database after and the value returned.        *)

TheDb == [open |-> dbOpen, rows |-> rows, nextId |-> nextId]

\* init(): this.db is set when openDatabaseAsync resolves; every error is
\* caught and logged.
DbInitCall(db, openOk) ==
    IF openOk THEN [db EXCEPT !.open = TRUE] ELSE db

\* "if (!this.db) await this.init();" at the head of the methods.
EnsureOpen(db, openOk) ==
    IF db.open THEN db ELSE DbInitCall(db, openOk)

\* An INSERT that stores an issue not yet synced under a third value of
\* the synced column.
InsertedRowSubmitting(id, issue) ==
    [id          |-> id,
     report      |-> issue.report,
     title       |-> issue.title,
     description |-> issue.description,
     location    |-> issue.location,
     photo_url   |-> IF issue.photo_url = NoPhoto THEN Null ELSE issue.photo_url,
     created_at  |-> issue.created_at,
     synced      |-> IF issue.synced THEN 1 ELSE 2]

\* The row INSERT writes for an issue: photo_url || null, synced ? 1 : 0.
InsertedRow(id, issue) ==
    [id          |-> id,
     report      |-> issue.report,
     title       |-> issue.title,
     description |-> issue.description,
     location    |-> issue.location,
     photo_url   |-> IF issue.photo_url = NoPhoto THEN Null ELSE issue.photo_url,
     created_at  |-> issue.created_at,
     synced      |-> IF issue.synced THEN 1 ELSE 0]

\* A saveIssueLocally on a table whose id column lacks AUTOINCREMENT: the
\* new id is the largest id in the table plus one.
SaveIssueLocallyMaxRowid(db, issue, openOk, insertOk) ==
    LET d == EnsureOpen(db, openOk) IN
    IF ~d.open THEN [db |-> d, ret |-> 0]
    ELSE IF ~insertOk THEN [db |-> d, ret |-> 0]
    ELSE [db  |-> [d EXCEPT !.rows = Append(@, InsertedRow(Len(d.rows) + 1, issue)),
                            !.nextId = @ + 1],
          ret |-> Len(d.rows) + 1]

\* saveIssueLocally: returns lastInsertRowId, or null (written 0 here: row
\* ids start at 1) when the database cannot be opened or INSERT throws.
SaveIssueLocally(db, issue, openOk, insertOk) ==
    LET d == EnsureOpen(db, openOk) IN
    IF ~d.open THEN [db |-> d, ret |-> 0]
    ELSE IF ~insertOk THEN [db |-> d, ret |-> 0]
    ELSE [db  |-> [d EXCEPT !.rows = Append(@, InsertedRow(d.nextId, issue)),
                            !.nextId = @ + 1],
          ret |-> d.nextId]

\* The row mapping of getLocalIssues / getUnsyncedIssues.
ToLocalIssue(row) ==
    [id          |-> row.id,
     report      |-> row.report,
     title       |-> row.title,
     description |-> row.description,
     location    |-> row.location,
     photo_url   |-> IF row.photo_url = Null THEN NoPhoto ELSE row.photo_url,
     created_at  |-> row.created_at,
     synced      |-> row.synced # 0]

\* ORDER BY created_at DESC
OrderedDesc(q) ==
    \A i \in 1..(Len(q) - 1) : TextLeq(q[i + 1].created_at, q[i].created_at)

\* A selection without the WHERE clause.
IsUnsyncedOrNot(row) == TRUE

\* WHERE synced = 0
IsUnsynced(row) == row.synced = 0

\* The answers SQLite may give to SELECT * FROM <sel> ORDER BY created_at
\* DESC: the selected rows in any order the ORDER BY allows (rows with
\* equal keys come in an order SQLite does not specify).
QueryDesc(sel) ==
    {[i \in 1..Len(sel) |-> ToLocalIssue(sel[p[i]])] : p \in
        {o \in Orderings(sel) : OrderedDesc([i \in 1..Len(sel) |-> sel[o[i]]])}}

\* getUnsyncedIssues: the set of values it may return.
GetUnsyncedIssues(db, openOk, queryOk) ==
    LET d == EnsureOpen(db, openOk) IN
    IF ~d.open \/ ~queryOk THEN {<<>>}
    ELSE QueryDesc(SelectSeq(d.rows, IsUnsynced))

\* getLocalIssues: the set of values it may return.
GetLocalIssues(db, openOk, queryOk) ==
    LET d == EnsureOpen(db, openOk) IN
    IF ~d.open \/ ~queryOk THEN {<<>>}
    ELSE QueryDesc(d.rows)

\* A markAsSynced that flips the flag: UPDATE issues SET synced = 1 - synced.
MarkAsSyncedToggle(db, localId, updateOk) ==
    IF ~db.open \/ ~updateOk THEN db
    ELSE [db EXCEPT !.rows =
            [i \in 1..Len(@) |-> IF @[i].id = localId
                                  THEN [@[i] EXCEPT !.synced = 1 - @] ELSE @[i]]]

\* A markAsSynced whose UPDATE has no WHERE clause.
MarkAsSyncedEveryRow(db, localId, updateOk) ==
    IF ~db.open \/ ~updateOk THEN db
    ELSE [db EXCEPT !.rows = [i \in 1..Len(@) |-> [@[i] EXCEPT !.synced = 1]]]

\* A markAsSynced that removes the row it was to update.
MarkAsSyncedAndRemove(db, localId, updateOk) ==
    IF ~db.open \/ ~updateOk THEN db
    ELSE [db EXCEPT !.rows = SelectSeq(@, LAMBDA row : row.id # localId)]

\* markAsSynced: UPDATE issues SET synced = 1 WHERE id = ?; returns nothing,
\* and does not open the database.
MarkAsSynced(db, localId, updateOk) ==
    IF ~db.open \/ ~updateOk THEN db
    ELSE [db EXCEPT !.rows =
            [i \in 1..Len(@) |-> IF @[i].id = localId
                                  THEN [@[i] EXCEPT !.synced = 1] ELSE @[i]]]

\* What markAsSynced resolves to: the method has no return statement, its
\* early return (line 120) is bare and its catch block only logs, so the
\* promise resolves to undefined on every path and never rejects.
MarkAsSyncedReturns(db, localId, updateOk) == Undefined

\* getIssueCount
GetIssueCount(db, openOk, queryOk) ==
    LET d == EnsureOpen(db, openOk) IN
    IF ~d.open \/ ~queryOk THEN 0 ELSE Len(d.rows)

\* clearAllData: DELETE FROM issues (AUTOINCREMENT never reuses an id).
ClearAllData(db, deleteOk) ==
    IF ~db.open \/ ~deleteOk THEN db ELSE [db EXCEPT !.rows = <<>>]

----------------------------------------------------------------------------
(* ApiService and NotificationService: what a call returns, given how the  *)
(* remote end answered.                                                    *)

\* How an uploadPhoto call can go: the host answers success with a url
\* ("ok"), success: false ("rejected"), something that is not JSON or has
\* no data object ("malformed"), success: true with a data object that has
\* no url ("nourl"); fetch rejects ("network"); no API key is configured
\* ("nokey").
UploadOutcomes == {"ok", "rejected", "malformed", "nourl", "network", "nokey"}
CreateOutcomes == {"ok", "rejected", "network", "timeout"}
PushOutcomes == {"sent", "throws"}

\* uploadPhoto: result.data.url when the host answers success (undefined
\* when data has no url), null otherwise: without an API key, on
\* success: false, and from the catch block on every exception.
UploadPhoto(outcome) ==
    IF outcome = "ok" THEN RemoteUrl
    ELSE IF outcome = "nourl" THEN Undefined
    ELSE Null

\* An uploadPhoto with a retry after a failed fetch.
UploadWritesWithRetry(outcome) ==
    IF outcome = "nokey" THEN 0 ELSE IF outcome = "network" THEN 2 ELSE 1

\* The POSTs one uploadPhoto call makes to the asset host: none when
\* checkApiKey() fails (lines 85-88), else the one fetch of line 105; the
\* method has no loop and no second fetch.
UploadWrites(outcome) == IF outcome = "nokey" THEN 0 ELSE 1

\* uploadPhoto's body after the key check is one try block whose catch
\* returns null: no outcome makes the call throw.
UploadPhotoThrows(outcome) == FALSE

\* JavaScript truthiness of a value that is a string, null or undefined.
Truthy(v) == v \notin {Null, Undefined, ""}

\* A createIssue that returns normally whatever the answer was.
CreateIssueNeverThrows(outcome) == FALSE

\* createIssue: returns response.data, or logs and rethrows.
CreateIssueThrows(outcome) == outcome # "ok"

\* sendPushNotification: returns the result, or logs and rethrows.
SendPushThrows(outcome) == outcome # "sent"

\* An answer from a remote end needs the network.
Reachable(outcome) ==
    outcome \in {"ok", "rejected", "malformed", "nourl", "sent"} => net

----------------------------------------------------------------------------
(* The application *)

\* The form before any press: title and description are '' (lines 35-36).
NoPress == [made |-> FALSE, title |-> <<>>, description |-> <<>>]

NoCall ==
    [report |-> 0, title |-> <<>>, description |-> <<>>, location |-> "",
     photo |-> NoPhoto, online |-> FALSE, probed |-> "none",
     photoUrl |-> NoPhoto, upload |-> "none", writes |-> 0,
     returned |-> "none", create |-> "none",
     saves |-> <<>>, push |-> "none", done |-> FALSE]

Init ==
    /\ app = "stopped"
    /\ screen = "home"
    /\ net \in BOOLEAN
    /\ clock = ClockStart
    /\ isOnline = TRUE
    /\ loading = FALSE
    /\ showForm = FALSE
    /\ photo = NoPhoto
    /\ pc = "idle"
    /\ cur = NoCall
    /\ alert = "none"
    /\ sent = <<>>
    /\ pushes = <<>>
    /\ pushToken = Null
    /\ dbOpen = FALSE
    /\ rows = <<>>
    /\ nextId = 1
    /\ result = [op |-> "none", value |-> <<>>]
    /\ nReports = 0
    /\ pressed = NoPress
    /\ inFlight = 0
    /\ issued = {}

\* The ids of the rows of a table value.
IdsOf(t) == {t[i].id : i \in DOMAIN t}

SetDb(db) ==
    /\ dbOpen' = db.open
    /\ rows' = db.rows
    /\ nextId' = db.nextId
    /\ issued' = issued \cup (IdsOf(db.rows) \ IdsOf(rows))

\* App.initializeApp: databaseService.init(), then
\* registerForPushNotifications (a token, or null).
InitializeApp ==
    /\ app = "stopped"
    /\ \E openOk \in BOOLEAN, token \in {Null, "ExponentPushToken"} :
          /\ SetDb(DbInitCall(TheDb, openOk))
          /\ pushToken' = token
    /\ app' = "running"
    /\ UNCHANGED <<screen, net, clock, isOnline, loading, showForm, photo, pc,
                   cur, alert, sent, pushes, result, nReports, pressed, inFlight>>

\* CameraScreen mounts: useState defaults, then the mount effect's
\* checkNetworkStatus sets isOnline from NetInfo.fetch().
OpenCamera ==
    /\ app = "running"
    /\ screen = "home"
    /\ screen' = "camera"
    /\ isOnline' = net
    /\ loading' = FALSE
    /\ showForm' = FALSE
    /\ photo' = NoPhoto
    /\ UNCHANGED <<app, net, clock, pc, cur, alert, sent, pushes, pushToken,
                   dbOpen, rows, nextId, issued, result, nReports, pressed, inFlight>>

AlertOpen == pc = "alerted"

\* takePicture: the form is shown only with a photo.
TakePicture ==
    /\ screen = "camera"
    /\ ~showForm
    /\ ~AlertOpen
    /\ photo' = LocalUri
    /\ showForm' = TRUE
    /\ UNCHANGED <<app, screen, net, clock, isOnline, loading, pc, cur, alert,
                   sent, pushes, pushToken, dbOpen, rows, nextId, issued, result,
                   nReports, pressed, inFlight>>

\* retakePicture (its button is disabled while loading).
RetakePicture ==
    /\ screen = "camera"
    /\ showForm
    /\ ~loading
    /\ ~AlertOpen
    /\ photo' = NoPhoto
    /\ showForm' = FALSE
    /\ UNCHANGED <<app, screen, net, clock, isOnline, loading, pc, cur, alert,
                   sent, pushes, pushToken, dbOpen, rows, nextId, issued, result,
                   nReports, pressed, inFlight>>

\* The network comes or goes.
NetChange ==
    /\ net' = ~net
    /\ UNCHANGED <<app, screen, clock, isOnline, loading, showForm, photo, pc,
                   cur, alert, sent, pushes, pushToken, dbOpen, rows, nextId, issued,
                   result, nReports, pressed, inFlight>>

\* A millisecond passes.
Tick ==
    /\ clock < ClockStart + ClockSpan
    /\ clock' = clock + 1
    /\ UNCHANGED <<appVars, dbOpen, rows, nextId, issued, result>>

----------------------------------------------------------------------------
(* submitIssue, one action per stretch between two awaits.  The constants  *)
(* title, description, photo, location and isOnline of the running call    *)
(* are those of the render whose submitIssue was pressed: setIsOnline      *)
(* inside checkNetworkStatus changes the state for the next render, not    *)
(* the constant the running call closed over.                              *)

\* finally { setLoading(false) }, after an alert whose OK button navigates
\* back.
FinishWith(title) ==
    /\ alert' = title
    /\ loading' = FALSE
    /\ inFlight' = inFlight - 1
    /\ pc' = "alerted"

\* A submit button that is never disabled.
SubmitEnabledTapsThrough(isLoading) == TRUE

\* The submit button lets the press through only when it is rendered
\* enabled: disabled={loading} (lines 344-348).  setLoading(true) is flushed
\* when the press handler returns at its first await, before the next touch
\* event is handled.
SubmitEnabled(isLoading) == ~isLoading

\* MaxReports bounds the captures made one after the other.  A press while
\* a call is running is not cut off by that bound: only the button's own
\* guard stands in its way.
WithinBound == nReports < MaxReports \/ inFlight > 0

\* Lines 148-154: validation, setLoading(true), up to the first await.
SubmitIssue ==
    /\ screen = "camera"
    /\ showForm
    /\ SubmitEnabled(loading)
    /\ ~AlertOpen
    /\ \E title \in Texts, description \in Texts, loc \in Locations :
          /\ pressed' = [made |-> TRUE, title |-> title, description |-> description]
          /\ IF Trim(title) = <<>> \/ Trim(description) = <<>>
             THEN /\ alert' = "Error: Please fill in both title and description"
                  /\ UNCHANGED <<loading, pc, cur, nReports, inFlight>>
             ELSE /\ WithinBound
                  /\ nReports' = nReports + 1
                  /\ inFlight' = inFlight + 1
                  /\ loading' = TRUE
                  /\ pc' = "probe"
                  /\ alert' = "none"
                  /\ cur' = [NoCall EXCEPT !.report = nReports + 1,
                                           !.title = Trim(title),
                                           !.description = Trim(description),
                                           !.location = LocationLabel(loc),
                                           !.photo = photo,
                                           !.online = isOnline]
    /\ UNCHANGED <<app, screen, net, clock, isOnline, showForm, photo, sent,
                   pushes, pushToken, dbOpen, rows, nextId, issued, result>>

\* The branch taken after "await checkNetworkStatus()", lines 166-176 and
\* 203: it reads the call's own isOnline.
AfterProbe(c) ==
    IF c.photo # NoPhoto /\ c.online THEN "upload"
    ELSE IF c.online THEN "create"
    ELSE "saveOffline"

\* Line 157: await checkNetworkStatus() (lines 51-54).  NetInfo.fetch()
\* resolves with the current state, or rejects, which lands in the catch.
Probe ==
    /\ pc = "probe"
    /\ \/ /\ isOnline' = net
          /\ cur' = [cur EXCEPT !.probed = IF net THEN "online" ELSE "offline"]
          /\ pc' = AfterProbe(cur)
       \/ /\ cur' = [cur EXCEPT !.probed = "throws"]
          /\ pc' = "catch"
          /\ UNCHANGED isOnline
    /\ UNCHANGED <<app, screen, net, clock, loading, showForm, photo, alert,
                   sent, pushes, pushToken, dbOpen, rows, nextId, issued, result,
                   nReports, pressed, inFlight>>

\* Lines 167-174: await apiService.uploadPhoto(photo).
Upload ==
    /\ pc = "upload"
    /\ \E outcome \in UploadOutcomes :
          /\ Reachable(outcome)
          /\ LET photoUrl == UploadPhoto(outcome) IN
             cur' = [cur EXCEPT !.upload = outcome,
                                !.writes = UploadWrites(outcome),
                                !.returned = photoUrl,
                                !.photoUrl = IF Truthy(photoUrl) THEN photoUrl ELSE @]
          /\ pc' = IF UploadPhotoThrows(outcome) THEN "catch" ELSE "create"
    /\ UNCHANGED <<app, screen, net, clock, isOnline, loading, showForm, photo,
                   alert, sent, pushes, pushToken, dbOpen, rows, nextId, issued, result,
                   nReports, pressed, inFlight>>

\* A request body that falls back to the local photo, as the local saves do.
IssueDataWithLocalPhoto(c) ==
    [report |-> c.report, title |-> c.title, description |-> c.description,
     location |-> c.location,
     photo_url |-> IF Truthy(c.photoUrl) /\ c.photoUrl # NoPhoto
                   THEN c.photoUrl ELSE c.photo]

\* issueData as posted by line 179.
IssueData(c) ==
    [report |-> c.report, title |-> c.title, description |-> c.description,
     location |-> c.location, photo_url |-> c.photoUrl]

\* Line 179: await apiService.createIssue(issueData).
Create ==
    /\ pc = "create"
    /\ \E outcome \in CreateOutcomes :
          /\ Reachable(outcome)
          /\ sent' = Append(sent, [request |-> IssueData(cur), answer |-> outcome])
          /\ cur' = [cur EXCEPT !.create = outcome]
          /\ pc' = IF CreateIssueThrows(outcome) THEN "catch" ELSE "saveSynced"
    /\ UNCHANGED <<app, screen, net, clock, isOnline, loading, showForm, photo,
                   alert, pushes, pushToken, dbOpen, rows, nextId, issued, result,
                   nReports, pressed, inFlight>>

\* A synced save that stores the captured photo instead of issueData's.
SyncedIssueLocalPhoto(c, now) ==
    [report |-> c.report, title |-> c.title, description |-> c.description,
     location |-> c.location, photo_url |-> c.photo,
     created_at |-> ToISOString(now), synced |-> TRUE]

\* The argument of saveIssueLocally at lines 182-186.
SyncedIssue(c, now) ==
    [report |-> c.report, title |-> c.title, description |-> c.description,
     location |-> c.location, photo_url |-> c.photoUrl,
     created_at |-> ToISOString(now), synced |-> TRUE]

\* The argument of saveIssueLocally at lines 206-211 and 225-232.
UnsyncedIssue(c, now) ==
    [report |-> c.report, title |-> c.title, description |-> c.description,
     location |-> c.location, photo_url |-> c.photo,
     created_at |-> ToISOString(now), synced |-> FALSE]

\* Lines 182-202: save as synced, then notify when there is a push token,
\* else the Success alert.
SaveSynced ==
    /\ pc = "saveSynced"
    /\ \E openOk \in BOOLEAN, insertOk \in BOOLEAN :
          LET r == SaveIssueLocally(TheDb, SyncedIssue(cur, clock), openOk, insertOk) IN
          /\ SetDb(r.db)
          /\ IF pushToken # Null
             THEN /\ pc' = "notify"
                  /\ cur' = [cur EXCEPT !.saves = Append(@, r.ret)]
                  /\ UNCHANGED <<alert, loading, inFlight>>
             ELSE /\ FinishWith("Success!")
                  /\ cur' = [cur EXCEPT !.saves = Append(@, r.ret), !.done = TRUE]
    /\ UNCHANGED <<app, screen, net, clock, isOnline, showForm, photo, sent,
                   pushes, pushToken, result, nReports, pressed>>

\* Lines 191-202: await sendPushNotification, then the Success alert.
Notify ==
    /\ pc = "notify"
    /\ \E outcome \in PushOutcomes :
          /\ Reachable(outcome)
          /\ pushes' = Append(pushes, [report |-> cur.report, outcome |-> outcome])
          /\ IF SendPushThrows(outcome)
             THEN /\ pc' = "catch"
                  /\ cur' = [cur EXCEPT !.push = outcome]
                  /\ UNCHANGED <<alert, loading, inFlight>>
             ELSE /\ FinishWith("Success!")
                  /\ cur' = [cur EXCEPT !.push = outcome, !.done = TRUE]
    /\ UNCHANGED <<app, screen, net, clock, isOnline, showForm, photo, sent,
                   pushToken, dbOpen, rows, nextId, issued, result,
                   nReports, pressed>>

\* Lines 203-218: the offline branch.
SaveOffline ==
    /\ pc = "saveOffline"
    /\ \E openOk \in BOOLEAN, insertOk \in BOOLEAN :
          LET r == SaveIssueLocally(TheDb, UnsyncedIssue(cur, clock), openOk, insertOk) IN
          /\ SetDb(r.db)
          /\ cur' = [cur EXCEPT !.saves = Append(@, r.ret), !.done = TRUE]
    /\ FinishWith("Saved Offline!")
    /\ UNCHANGED <<app, screen, net, clock, isOnline, showForm, photo, sent,
                   pushes, pushToken, result, nReports, pressed>>

\* Lines 219-244: the catch block, then finally.
Catch ==
    /\ pc = "catch"
    /\ IF cur.online
       THEN /\ \E openOk \in BOOLEAN, insertOk \in BOOLEAN :
                 LET r == SaveIssueLocally(TheDb, UnsyncedIssue(cur, clock),
                                           openOk, insertOk) IN
                 /\ SetDb(r.db)
                 /\ cur' = [cur EXCEPT !.saves = Append(@, r.ret), !.done = TRUE]
            /\ FinishWith("Saved for Later")
       ELSE /\ alert' = "Error: Failed to save issue. Please try again."
            /\ loading' = FALSE
            /\ inFlight' = inFlight - 1
            /\ pc' = "idle"
            /\ cur' = [cur EXCEPT !.done = TRUE]
            /\ UNCHANGED <<dbOpen, rows, nextId, issued>>
    /\ UNCHANGED <<app, screen, net, clock, isOnline, showForm, photo, sent,
                   pushes, pushToken, result, nReports, pressed>>

\* OK on the final alert: navigation.goBack() unmounts the screen.
Dismiss ==
    /\ pc = "alerted"
    /\ pc' = "idle"
    /\ screen' = "home"
    /\ isOnline' = TRUE
    /\ showForm' = FALSE
    /\ photo' = NoPhoto
    /\ cur' = NoCall
    /\ alert' = "none"
    /\ pressed' = NoPress
    /\ UNCHANGED <<app, net, clock, loading, sent, pushes, pushToken, dbOpen,
                   rows, nextId, issued, result, nReports, inFlight>>

\* The process is killed: component and service state is gone, the SQLite
\* file and what the servers received stay.
Crash ==
    /\ app = "running"
    /\ app' = "stopped"
    /\ screen' = "home"
    /\ isOnline' = TRUE
    /\ loading' = FALSE
    /\ showForm' = FALSE
    /\ photo' = NoPhoto
    /\ pc' = "idle"
    /\ pushToken' = Null
    /\ dbOpen' = FALSE
    /\ cur' = NoCall
    /\ alert' = "none"
    /\ inFlight' = 0
    /\ pressed' = NoPress
    /\ UNCHANGED <<net, clock, sent, pushes, rows, nextId, issued, result,
                   nReports>>

Next ==
    \/ InitializeApp
    \/ OpenCamera
    \/ TakePicture
    \/ RetakePicture
    \/ NetChange
    \/ Tick
    \/ SubmitIssue
    \/ Probe
    \/ Upload
    \/ Create
    \/ SaveSynced
    \/ Notify
    \/ SaveOffline
    \/ Catch
    \/ Dismiss
    \/ Crash

Spec == Init /\ [][Next]_vars

\* The event loop runs every continuation of a started submitIssue call, and
\* the root component's effect runs initializeApp; nothing else is promised.
SubmitSteps ==
    Probe \/ Upload \/ Create \/ SaveSynced \/ Notify \/ SaveOffline \/ Catch

FairSpec ==
    Init /\ [][Next]_vars /\ WF_vars(SubmitSteps) /\ WF_vars(InitializeApp)

----------------------------------------------------------------------------
(* DatabaseService on its own: any caller, any order, any arguments.       *)

Stamps == {ToISOString(t) : t \in ClockStart..(ClockStart + ClockSpan)}

Issues ==
    [report : {0}, title : {<<"a">>}, description : {<<"a">>},
     location : {UnknownLocation}, photo_url : {NoPhoto, LocalUri},
     created_at : Stamps, synced : BOOLEAN]

CallInit ==
    /\ \E openOk \in BOOLEAN : SetDb(DbInitCall(TheDb, openOk))
    /\ result' = [op |-> "init", value |-> <<>>]
    /\ UNCHANGED <<appVars, clock>>

CallSaveIssueLocally ==
    /\ nextId <= MaxRows
    /\ \E issue \in Issues, openOk \in BOOLEAN, insertOk \in BOOLEAN :
          LET r == SaveIssueLocally(TheDb, issue, openOk, insertOk) IN
          /\ SetDb(r.db)
          /\ result' = [op |-> "saveIssueLocally", value |-> r.ret]
    /\ UNCHANGED <<appVars, clock>>

CallGetLocalIssues ==
    /\ \E openOk \in BOOLEAN, queryOk \in BOOLEAN :
          /\ SetDb(EnsureOpen(TheDb, openOk))
          /\ \E q \in GetLocalIssues(TheDb, openOk, queryOk) :
                result' = [op |-> "getLocalIssues", value |-> q]
    /\ UNCHANGED <<appVars, clock>>

CallGetUnsyncedIssues ==
    /\ \E openOk \in BOOLEAN, queryOk \in BOOLEAN :
          /\ SetDb(EnsureOpen(TheDb, openOk))
          /\ \E q \in GetUnsyncedIssues(TheDb, openOk, queryOk) :
                result' = [op |-> "getUnsyncedIssues", value |-> q]
    /\ UNCHANGED <<appVars, clock>>

\* A markAsSynced call: value.returned is what the caller gets back,
\* value.updated whether the UPDATE statement ran to its end.
CallMarkAsSynced ==
    /\ \E localId \in 1..MaxRows, updateOk \in BOOLEAN :
          /\ SetDb(MarkAsSynced(TheDb, localId, updateOk))
          /\ result' = [op |-> "markAsSynced",
                        value |-> [localId |-> localId,
                                   returned |-> MarkAsSyncedReturns(TheDb, localId, updateOk),
                                   updated |-> TheDb.open /\ updateOk]]
    /\ UNCHANGED <<appVars, clock>>

CallGetIssueCount ==
    /\ \E openOk \in BOOLEAN, queryOk \in BOOLEAN :
          /\ SetDb(EnsureOpen(TheDb, openOk))
          /\ result' = [op |-> "getIssueCount",
                        value |-> GetIssueCount(TheDb, openOk, queryOk)]
    /\ UNCHANGED <<appVars, clock>>

CallClearAllData ==
    /\ \E deleteOk \in BOOLEAN : SetDb(ClearAllData(TheDb, deleteOk))
    /\ result' = [op |-> "clearAllData", value |-> <<>>]
    /\ UNCHANGED <<appVars, clock>>

\* A new process: the module is loaded again, db = null; the file stays.
Reload ==
    /\ dbOpen
    /\ dbOpen' = FALSE
    /\ result' = [op |-> "none", value |-> <<>>]
    /\ UNCHANGED <<appVars, clock, rows, nextId, issued>>

DbNext ==
    \/ CallInit
    \/ CallSaveIssueLocally
    \/ CallGetLocalIssues
    \/ CallGetUnsyncedIssues
    \/ CallMarkAsSynced
    \/ CallGetIssueCount
    \/ CallClearAllData
    \/ Reload

DbSpec == Init /\ [][DbNext]_vars

----------------------------------------------------------------------------
(* What the claims speak about *)

Reports == 1..MaxReports

RowsOf(r) == {i \in DOMAIN rows : rows[i].report = r}

HasRow(r) == RowsOf(r) # {}

\* The table has one state column, synced INTEGER DEFAULT 0: a row is
\* pending or synced, and nothing else can be stored.
SyncState(row) == IF row.synced = 0 THEN "Pending" ELSE "Synced"

PendingRow(r) == \E i \in RowsOf(r) : SyncState(rows[i]) = "Pending"

Attempts(r) == {i \in DOMAIN sent : sent[i].request.report = r}

Accepted(r) == \E i \in Attempts(r) : sent[i].answer = "ok"

AcceptCount(r) == Cardinality({i \in Attempts(r) : sent[i].answer = "ok"})

\* The latest call passed validation and ran to its end.
Finished == cur.report \in Reports /\ cur.done

SaveFailed == \E i \in DOMAIN cur.saves : cur.saves[i] = 0

----------------------------------------------------------------------------
(* Claims *)

\* C1: when a validated submitIssue call has finished, its report is
\* accepted by the remote API or is a row of the local table.
C1_NoReportVanishes ==
    Finished => (Accepted(cur.report) \/ HasRow(cur.report))

\* C2: a row stored with synced = false eventually stops being pending
\* (it is re-attempted and marked synced), unless connectivity is lost.
C2_EventualDelivery ==
    \A r \in Reports : PendingRow(r) ~> (~PendingRow(r) \/ ~net)

\* C3: when createIssue succeeded and the report was stored as synced, a
\* failing sendPushNotification adds no row for it and the call does not
\* end as a failed submission.
C3_NotifyFailureHarmless ==
    (Finished /\ cur.create = "ok" /\ cur.push = "throws"
        /\ cur.saves # <<>> /\ cur.saves[1] # 0)
    => (/\ Cardinality(RowsOf(cur.report)) = 1
        /\ ~PendingRow(cur.report)
        /\ alert = "Success!")

\* C4: a report the remote API accepted has no unsynced row in the local
\* table, and no report is accepted more than once.
C4_ExactlyOnce ==
    \A r \in Reports :
        /\ Accepted(r) => ~PendingRow(r)
        /\ AcceptCount(r) <= 1

\* C5: every confirmed capture has at most one row in the local table.
C5_NoDuplicateRows ==
    \A r \in Reports : Cardinality(RowsOf(r)) <= 1

\* C6: when saveIssueLocally failed to persist the report, submitIssue
\* ends with neither the Success nor the Saved Offline alert.
C6_StorageFaultSurfaced ==
    (Finished /\ SaveFailed) => alert \notin {"Success!", "Saved Offline!"}

\* C7: a report for which a createIssue request has been made is already a
\* row of the local table.
C7_PersistBeforeAttempt ==
    \A r \in Reports : Attempts(r) # {} => HasRow(r)

\* C8: the branch submitIssue takes after its connectivity probe uses the
\* value that probe returned.
C8_FreshDecision ==
    (cur.report \in Reports /\ cur.probed \in {"online", "offline"})
    => (cur.online <=> cur.probed = "online")

\* C9: getUnsyncedIssues returns unsynced rows only, in non-decreasing
\* created_at order.
C9_PendingOldestFirst ==
    result.op = "getUnsyncedIssues"
    => /\ \A i \in DOMAIN result.value : ~result.value[i].synced
       /\ \A i, j \in DOMAIN result.value :
             i < j => TextLeq(result.value[i].created_at, result.value[j].created_at)

\* C10: after createIssue failed with a server rejection, no row of the
\* report is in the Pending state (the state a retry would pick up).
C10_RejectedIsTerminal ==
    (Finished /\ cur.create = "rejected") => ~PendingRow(cur.report)

\* C11: after createIssue failed with a network error or a timeout, the
\* finished call has left the report in the local table as a row with
\* synced = 0 that holds the local photo URI.
C11_RetryableFailureLeavesPending ==
    (Finished /\ cur.create \in {"network", "timeout"})
    => \E i \in RowsOf(cur.report) :
          /\ rows[i].synced = 0
          /\ rows[i].photo_url = (IF cur.photo = NoPhoto THEN Null ELSE cur.photo)

\* C12: after uploadPhoto failed with a network error, the finished call
\* has made no createIssue request for the report and has stored it as a
\* row with synced = 0 that holds the local file URI.
C12_UploadFailureRevertsToPending ==
    (Finished /\ cur.upload = "network")
    => /\ Attempts(cur.report) = {}
       /\ \E i \in RowsOf(cur.report) :
             rows[i].synced = 0 /\ rows[i].photo_url = LocalUri

\* C13: when the asset host rejected the photo, the finished call has
\* posted the report without a photo_url, and when that request was
\* accepted the report is a row with synced = 1.
C13_GracefulAssetDegrade ==
    (Finished /\ cur.photo # NoPhoto /\ cur.upload = "rejected")
    => /\ \E i \in Attempts(cur.report) : sent[i].request.photo_url = NoPhoto
       /\ cur.create = "ok" => \E i \in RowsOf(cur.report) : rows[i].synced = 1

\* C14: at most one submitIssue execution is between its start and its
\* end, the submit button is disabled for as long as one is, and no report
\* has more than one createIssue attempt.
C14_AtMostOneInFlight ==
    /\ inFlight \in {0, 1}
    /\ inFlight = 1 <=> pc \notin {"idle", "alerted"}
    /\ inFlight = 1 => ~SubmitEnabled(loading)
    /\ \A r \in Reports : Cardinality(Attempts(r)) <= 1

\* C14 witness: a createIssue request is about to be made by the one
\* running call, with the button disabled.
C14_Witness ==
    pc = "create" /\ inFlight = 1 /\ loading

\* The sendPushNotification calls made for report r.
PushCount(r) == Cardinality({i \in DOMAIN pushes : pushes[i].report = r})

\* C15 as stated: a finished call whose report was accepted has made
\* exactly one sendPushNotification call for it, and no call is ever made
\* for a report that was not accepted.
C15_NotifiedExactlyOnce ==
    /\ \A r \in Reports : ~Accepted(r) => PushCount(r) = 0
    /\ (Finished /\ Accepted(cur.report)) => PushCount(cur.report) = 1

\* C15 amended: at most one sendPushNotification call is made per report
\* and none for a report that was not accepted; a finished call whose
\* report was accepted has made the call exactly when a push token is
\* registered.
C15_NotifiedOnceWithToken ==
    /\ \A r \in Reports : PushCount(r) <= 1
    /\ \A r \in Reports : ~Accepted(r) => PushCount(r) = 0
    /\ (Finished /\ Accepted(cur.report))
          => (PushCount(cur.report) = 1 <=> pushToken # Null)

\* C15 witness: a finished call whose report was accepted and notified.
C15_Witness ==
    Finished /\ Accepted(cur.report) /\ PushCount(cur.report) = 1

\* C16: a finished submitIssue call whose connectivity probe found the
\* device offline has added exactly one row, with synced = 0, and has made
\* no uploadPhoto call, no createIssue call and no sendPushNotification
\* call for the report.
C16_OfflineCapture ==
    (Finished /\ cur.probed = "offline")
    => /\ Cardinality(RowsOf(cur.report)) = 1
       /\ \A i \in RowsOf(cur.report) : rows[i].synced = 0
       /\ cur.upload = "none"
       /\ Attempts(cur.report) = {}
       /\ PushCount(cur.report) = 0

\* C17 as stated: no step of DatabaseService removes a row whose synced
\* flag is 0.
C17_NeverDeletesUnsynced ==
    [][\A i \in DOMAIN rows : rows[i].synced = 0 => rows[i].id \in IdsOf(rows')]_vars

\* C17 amended: no operation of DatabaseService other than clearAllData
\* removes a row, whatever its synced flag; a clearAllData whose DELETE
\* ran leaves no row at all.
C17_OnlyClearAllDataDeletes ==
    [][/\ result'.op # "clearAllData" => IdsOf(rows) \subseteq IdsOf(rows')
       /\ result'.op = "clearAllData" => (rows' = <<>> \/ rows' = rows)]_vars

\* C17 witness: markAsSynced has updated one row while another row with
\* synced = 0 is still in the table.
C17_Witness ==
    /\ result.op = "markAsSynced"
    /\ \E i, j \in DOMAIN rows : rows[i].synced = 1 /\ rows[j].synced = 0

\* C19: after a markAsSynced call, the value the caller got back tells
\* whether the update was made: a call that met a closed database or a
\* storage fault does not return what a successful call returns.
C19_MarkAsSyncedReportsOutcome ==
    (result.op = "markAsSynced" /\ ~result.value.updated)
    => result.value.returned # MarkAsSyncedReturns([TheDb EXCEPT !.open = TRUE],
                                                   result.value.localId, TRUE)

\* The idempotency token a createIssue request carries: CreateIssueData has
\* the fields title, description, location and photo_url only, and
\* submitIssue adds none, so reading the token of a request gives undefined.
IdempotencyToken(request) ==
    IF "token" \in DOMAIN request THEN request.token ELSE Undefined

\* C18: every createIssue request carries an idempotency token, the same
\* for all requests of one report and different for different reports.
C18_StableIdempotencyToken ==
    /\ \A i \in DOMAIN sent : IdempotencyToken(sent[i].request) # Undefined
    /\ \A i, j \in DOMAIN sent :
          (sent[i].request.report = sent[j].request.report)
          <=> (IdempotencyToken(sent[i].request) = IdempotencyToken(sent[j].request))

\* C20: the ids in the table are strictly increasing in insertion order;
\* the id a successful saveIssueLocally returns is the id of a new row and
\* is greater than every id handed out before, also after clearAllData;
\* and no step changes the id of a row that stays in the table.
C20_LocalIdsIncreasing ==
    /\ [](\A i, j \in DOMAIN rows : i < j => rows[i].id < rows[j].id)
    /\ [][/\ (result'.op = "saveIssueLocally" /\ result'.value # 0)
              => /\ result'.value \in IdsOf(rows') \ IdsOf(rows)
                 /\ \A id \in issued : id < result'.value
           /\ \A i \in DOMAIN rows \cap DOMAIN rows' : rows'[i].id = rows[i].id]_vars

\* C20 witness: after the earlier rows were cleared, a successful
\* saveIssueLocally has returned an id above the ids used before.
C20_Witness ==
    /\ result.op = "saveIssueLocally"
    /\ result.value > 1
    /\ Len(rows) = 1
    /\ rows[1].id = result.value

\* The ids of the issues a query returned.
ReturnedIds(q) == {q[i].id : i \in DOMAIN q}

\* C21: a markAsSynced whose UPDATE ran leaves the row of that id with
\* synced = 1; a row with synced = 1 keeps that value for as long as it is
\* in the table; and no getUnsyncedIssues result contains a row whose
\* synced flag is 1.
C21_SyncedIsTerminal ==
    /\ [](result.op = "getUnsyncedIssues"
            => \A i \in DOMAIN rows :
                  rows[i].synced = 1 => rows[i].id \notin ReturnedIds(result.value))
    /\ [][/\ (result'.op = "markAsSynced" /\ result'.value.updated)
              => \A k \in DOMAIN rows' :
                    rows'[k].id = result'.value.localId => rows'[k].synced = 1
           /\ \A i \in DOMAIN rows, j \in DOMAIN rows' :
                 (rows[i].synced = 1 /\ rows'[j].id = rows[i].id)
                 => rows'[j].synced = 1]_vars

\* C21 witness: markAsSynced has run its UPDATE for a row of the table,
\* which now has synced = 1.
C21_Witness ==
    /\ result.op = "markAsSynced"
    /\ result.value.updated
    /\ \E i \in DOMAIN rows :
          rows[i].id = result.value.localId /\ rows[i].synced = 1

\* C22: in every reachable state, while a call is running and after a
\* crash at any point of it, each row of the table has synced = 0 or
\* synced = 1, and a crash leaves the table as it was written.
C22_NoInFlightStatePersisted ==
    /\ [](\A i \in DOMAIN rows : rows[i].synced \in {0, 1})
    /\ [][(app = "running" /\ app' = "stopped") => rows' = rows]_vars

\* C22 witness: the process has stopped after a createIssue request was
\* sent, and the table it leaves holds a row.
C22_Witness ==
    app = "stopped" /\ sent # <<>> /\ rows # <<>>

\* A text field that is not empty and has no blank at either end, as
\* trim() leaves it.
FilledText(t) == t # <<>> /\ Trim(t) = t

\* A location label that is present and not the empty string.
FilledLocation(l) == l \notin {Null, NoPhoto, ""}

\* C23: every row submitIssue wrote and every request it sent to
\* createIssue has a non-empty title, a non-empty description and a
\* non-empty location.
C23_RequiredFieldsNonEmpty ==
    /\ \A i \in DOMAIN rows :
          /\ FilledText(rows[i].title)
          /\ FilledText(rows[i].description)
          /\ FilledLocation(rows[i].location)
    /\ \A i \in DOMAIN sent :
          /\ FilledText(sent[i].request.title)
          /\ FilledText(sent[i].request.description)
          /\ FilledLocation(sent[i].request.location)

\* C23 witness: a request was sent and a row written for a report
\* captured without an address, both with the fallback label.
C23_Witness ==
    /\ \E i \in DOMAIN rows : rows[i].location = UnknownLocation
    /\ \E i \in DOMAIN sent : sent[i].request.location = UnknownLocation

\* C24: a markAsSynced(id) call keeps the number and order of the rows,
\* leaves every row with another id as it was, and changes nothing but
\* the synced flag of the row with that id.
C24_MarkAsSyncedTouchesOnlyFlag ==
    [][result'.op = "markAsSynced"
       => /\ Len(rows') = Len(rows)
          /\ \A i \in DOMAIN rows :
                IF rows[i].id = result'.value.localId
                THEN [rows'[i] EXCEPT !.synced = rows[i].synced] = rows[i]
                ELSE rows'[i] = rows[i]]_vars

\* C24 witness: markAsSynced has marked one row of a table that also holds
\* a row with another id, still unsynced.
C24_Witness ==
    /\ result.op = "markAsSynced"
    /\ result.value.updated
    /\ \E i, j \in DOMAIN rows :
          /\ rows[i].id = result.value.localId
          /\ rows[i].synced = 1
          /\ rows[j].id # result.value.localId
          /\ rows[j].synced = 0

\* C25: an uploadPhoto call has made at most one POST to the asset host,
\* whatever its outcome, and none when the API key is missing.
C25_UploadIsSingleAttempt ==
    cur.upload # "none"
    => /\ cur.writes <= 1
       /\ cur.upload = "nokey" => cur.writes = 0

\* C25 witness: an uploadPhoto call whose fetch failed has made its one
\* POST and returned.
C25_Witness ==
    cur.upload = "network" /\ cur.writes = 1 /\ cur.returned = Null

\* The columns that exist only in the local table.
LocalFields == {"id", "created_at", "synced"}

\* C26: the photo_url of every createIssue request is absent or a remote
\* URL, never the local file URI; in the requests of the running call it
\* is absent or the value uploadPhoto returned in that call; and no
\* request has a local field.
C26_RequestCarriesResolvedUrl ==
    \A i \in DOMAIN sent :
        LET request == sent[i].request IN
        /\ request.photo_url \in {NoPhoto, RemoteUrl}
        /\ request.photo_url # LocalUri
        /\ request.report = cur.report
              => (request.photo_url = NoPhoto \/ request.photo_url = cur.returned)
        /\ DOMAIN request \cap LocalFields = {}

\* C26 witness: a request of a call with a local photo carries the URL
\* uploadPhoto returned.
C26_Witness ==
    \E i \in DOMAIN sent :
        /\ sent[i].request.report = cur.report
        /\ cur.photo = LocalUri
        /\ sent[i].request.photo_url = RemoteUrl
        /\ cur.returned = RemoteUrl

\* C27: every row with synced = 1 belongs to a report for which
\* createIssue returned successfully, and its photo_url is null or a
\* remote URL, never the local file URI.
C27_SyncedRowWasAccepted ==
    \A i \in DOMAIN rows :
        rows[i].synced = 1
        => /\ Accepted(rows[i].report)
           /\ rows[i].photo_url \in {Null, RemoteUrl}

\* C27 witness: a row with synced = 1 of a report captured with a photo.
C27_Witness ==
    \E i \in DOMAIN rows :
        /\ rows[i].synced = 1
        /\ rows[i].photo_url = RemoteUrl
        /\ Accepted(rows[i].report)

\* C28: no step lowers the synced flag of a row that stays in the table,
\* and every step other than clearAllData keeps the rows it found, in
\* their order, adding at most new ones behind them.
C28_SyncedFlagMonotone ==
    [][/\ \A i \in DOMAIN rows, j \in DOMAIN rows' :
             rows'[j].id = rows[i].id => rows'[j].synced >= rows[i].synced
       /\ result'.op # "clearAllData"
             => /\ Len(rows') >= Len(rows)
                /\ \A i \in DOMAIN rows : rows'[i].id = rows[i].id]_vars

\* C28 witness: saveIssueLocally has added a second row behind a row
\* whose synced flag is 1.
C28_Witness ==
    /\ result.op = "saveIssueLocally"
    /\ Len(rows) = 2
    /\ rows[2].id = result.value
    /\ rows[1].synced = 1

\* A text that consists of blanks only, the empty text included.
Blank(t) == \A k \in DOMAIN t : t[k] = " "

\* The last press of the submit button found a title or a description
\* that is empty after trimming.
RejectedPress(p) == p.made /\ (Blank(p.title) \/ Blank(p.description))

\* C29: a step that ends with the last press being one with a blank title
\* or description has started no call (the call record, with its probe and
\* upload, and isOnline are as before), sent no request, written no row,
\* sent no notification, and ends with the loading flag false.
C29_RejectedInputHasNoEffect ==
    [][RejectedPress(pressed')
       => /\ pc' = "idle" /\ pc = "idle"
          /\ loading' = FALSE
          /\ inFlight' = 0
          /\ UNCHANGED <<cur, isOnline, sent, rows, nextId, issued, dbOpen, pushes>>]_vars

\* C29 witness: the submit button was pressed with a title of blanks and
\* the validation alert is shown.
C29_Witness ==
    /\ pressed.made
    /\ pressed.title = <<" ">>
    /\ ~Blank(pressed.description)
    /\ alert = "Error: Please fill in both title and description"
    /\ ~loading

\* C30: whatever the outcome of an uploadPhoto call, the call has returned
\* a URL or null, and submitIssue is in its catch block only after it has
\* gone on to createIssue.
C30_UploadPhotoNeverRaises ==
    cur.upload # "none"
    => /\ cur.returned \in {RemoteUrl, Null}
       /\ pc = "catch" => cur.create # "none"

====
